---- MODULE Spec2Model ----
(***************************************************************************)
(* The two publication-list generators of the site:                        *)
(*   scripts/build_publications_from_bib.py  (bibliography file -> HTML)   *)
(*   scripts/build_publications.py           (ORCID public API  -> HTML)   *)
(*                                                                         *)
(* Text is a sequence of tokens.  A one-character string is that character *)
(* of the text; the space is " " and the line break "\n".  A longer string *)
(* is either a literal piece of markup written by a renderer (the text     *)
(* between two interpolations of an f-string, an entity written by         *)
(* html.escape), or the name of one non-ASCII code point: "E9" is U+00E9   *)
(* (e acute), "C9" is U+00C9 (E acute), "U301" is U+0301 (combining        *)
(* acute).  A character that comes from a record field or from the         *)
(* destination document is therefore always a one-character token, and     *)
(* markup written by the program never is, except "." and "\n".            *)
(***************************************************************************)
EXTENDS Integers, Sequences, FiniteSets, TLC

VARIABLES
    gen,        \* which script runs: "bib" or "orcid"
    pc,         \* position in main()
    run,        \* number of the current run of the generator
    args,       \* the keyword arguments render_html is called with
    bibExists,  \* BIB_PATH.exists()
    entries,    \* bib.entries of data/publications.bib, in file order
    summaries,  \* put-code of every work-summary of the ORCID /works answer
    put_codes,  \* result of orcid_works
    idx,        \* number of entries / put-codes the loop of main has consumed
    seen,       \* build_items: set of dedupe keys
    items,      \* list of publication records
    fragment,   \* the rendered fragment
    fragFile,   \* generated/publications_journal.html: <<>> or <<content>>
    fragRun,    \* the run that wrote fragFile last, 0 if none did
    dest,       \* content of publications.html
    exitCode,   \* exit status of the run: -1 while running
    destLog,    \* history: the content of publications.html when run k
                \* started, for every run k so far
    exitLog     \* history: the exit status of every run that has ended

vars == <<gen, pc, run, args, bibExists, entries, summaries, put_codes, idx,
          seen, items, fragment, fragFile, fragRun, dest, exitCode, destLog,
          exitLog>>

----------------------------------------------------------------------------
(* Characters *)

Digits == <<"0", "1", "2", "3", "4", "5", "6", "7", "8", "9">>

\* str.isdigit of one character
IsDigitChar(c) == \E i \in 1..10 : Digits[i] = c

DigitVal(c) == (CHOOSE i \in 1..10 : Digits[i] = c) - 1

UpperCase == <<"A", "B", "C", "D", "E", "F", "I", "M", "O", "P", "S", "U", "X", "C9">>
LowerCase == <<"a", "b", "c", "d", "e", "f", "i", "m", "o", "p", "s", "u", "x", "E9">>

\* str.lower of one character
LowerChar(c) ==
    IF \E i \in 1..Len(UpperCase) : UpperCase[i] = c
    THEN LowerCase[CHOOSE i \in 1..Len(UpperCase) : UpperCase[i] = c]
    ELSE c

\* \s of the re module
IsSpace(c) == c \in {" ", "\n"}

\* [a-z0-9] of the re module
IsAlnumLower(c) ==
    \/ IsDigitChar(c)
    \/ c \in {"a", "b", "c", "d", "e", "f", "g", "h", "i", "j", "k", "l", "m",
              "n", "o", "p", "q", "r", "s", "t", "u", "v", "w", "x", "y", "z"}

\* code point of a character, as Python compares strings
Ord(c) ==
    CASE c = " " -> 32
      [] c = "-" -> 45
      [] IsDigitChar(c) -> 48 + DigitVal(c)
      [] c = "U" -> 85
      [] c = "a" -> 97
      [] c = "d" -> 100
      [] c = "e" -> 101
      [] c = "k" -> 107
      [] c = "n" -> 110
      [] c = "o" -> 111
      [] c = "t" -> 116
      [] c = "w" -> 119
      [] OTHER -> 63

----------------------------------------------------------------------------
(* Strings *)

RECURSIVE MapLower(_)
\* str.lower
MapLower(s) ==
    IF s = <<>> THEN <<>> ELSE <<LowerChar(Head(s))>> \o MapLower(Tail(s))

RECURSIVE LStrip(_)
LStrip(s) ==
    IF s # <<>> /\ IsSpace(Head(s)) THEN LStrip(Tail(s)) ELSE s

RECURSIVE RStrip(_)
RStrip(s) ==
    IF s # <<>> /\ IsSpace(s[Len(s)]) THEN RStrip(SubSeq(s, 1, Len(s) - 1)) ELSE s

\* str.strip
Strip(s) == RStrip(LStrip(s))

\* s.startswith(p)
StartsWith(s, p) == Len(s) >= Len(p) /\ SubSeq(s, 1, Len(p)) = p

\* s.find(p) + 1: the position of the first occurrence of p in s, 0 if none
Find(s, p) ==
    LET hits == {i \in 1..(Len(s) - Len(p) + 1) : SubSeq(s, i, i + Len(p) - 1) = p}
    IN  IF hits = {} THEN 0 ELSE CHOOSE i \in hits : \A j \in hits : i <= j

\* p in s
Contains(s, p) == Find(s, p) # 0

\* s[i:] counted from 1
Drop(s, n) == SubSeq(s, n + 1, Len(s))

RECURSIVE Replace(_, _, _)
\* s.replace(p, r), p not empty: occurrences left to right, not overlapping
Replace(s, p, r) ==
    IF s = <<>> THEN <<>>
    ELSE IF StartsWith(s, p) THEN r \o Replace(Drop(s, Len(p)), p, r)
    ELSE <<Head(s)>> \o Replace(Tail(s), p, r)

RECURSIVE CollapseSpace(_)
\* re.sub(r"\s+", " ", s)
CollapseSpace(s) ==
    IF s = <<>> THEN <<>>
    ELSE IF IsSpace(Head(s)) THEN <<" ">> \o CollapseSpace(LStrip(s))
    ELSE <<Head(s)>> \o CollapseSpace(Tail(s))

RECURSIVE RemoveSpace(_)
\* re.sub(r"\s+", "", s)
RemoveSpace(s) ==
    IF s = <<>> THEN <<>>
    ELSE IF IsSpace(Head(s)) THEN RemoveSpace(Tail(s))
    ELSE <<Head(s)>> \o RemoveSpace(Tail(s))

\* str.isdigit
IsDigit(s) == s # <<>> /\ \A i \in 1..Len(s) : IsDigitChar(s[i])

RECURSIVE int(_)
\* int(s) of a string of digits: leading zeros are accepted
int(s) ==
    IF s = <<>> THEN 0 ELSE 10 * int(SubSeq(s, 1, Len(s) - 1)) + DigitVal(s[Len(s)])

RECURSIVE str(_)
\* str(n), n >= 0: the decimal numeral without leading zeros
str(n) ==
    IF n < 10 THEN <<Digits[n + 1]>> ELSE str(n \div 10) \o <<Digits[(n % 10) + 1]>>

\* s.zfill(2)
zfill2(s) ==
    IF Len(s) >= 2 THEN s ELSE IF Len(s) = 1 THEN <<"0">> \o s ELSE <<"0", "0">>

RECURSIVE Join(_, _)
\* sep.join(parts)
Join(parts, sep) ==
    IF parts = <<>> THEN <<>>
    ELSE IF Len(parts) = 1 THEN parts[1]
    ELSE parts[1] \o sep \o Join(Tail(parts), sep)

\* html.escape of one character (quote=True)
EscapeChar(c) ==
    CASE c = "&" -> "&amp;"
      [] c = "<" -> "&lt;"
      [] c = ">" -> "&gt;"
      [] c = "\"" -> "&quot;"
      [] c = "'" -> "&#x27;"
      [] OTHER -> c

\* html.escape
html_escape(s) == [i \in 1..Len(s) |-> EscapeChar(s[i])]

----------------------------------------------------------------------------
(* sorted() *)

RECURSIVE KeyLess(_, _)
\* a < b for two keys given as sequences of integers (a tuple of integers, or
\* the code points of a string): Python's lexicographic order
KeyLess(a, b) ==
    IF b = <<>> THEN FALSE
    ELSE IF a = <<>> THEN TRUE
    ELSE IF Head(a) # Head(b) THEN Head(a) < Head(b)
    ELSE KeyLess(Tail(a), Tail(b))

\* the code points of a string
OrdKey(s) == [i \in 1..Len(s) |-> Ord(s[i])]

RECURSIVE InsertKeyed(_, _, _)
\* x put into the sorted list r behind every element that does not sort after it
InsertKeyed(r, x, reverse) ==
    IF r = <<>> THEN <<x>>
    ELSE IF (IF reverse THEN KeyLess(Head(r).k, x.k) ELSE KeyLess(x.k, Head(r).k))
         THEN <<x>> \o r
    ELSE <<Head(r)>> \o InsertKeyed(Tail(r), x, reverse)

RECURSIVE SortKeyed(_, _)
\* sorted(xs, key=..., reverse=...) of a list of [k |-> key, v |-> value]:
\* stable, also with reverse=True
SortKeyed(xs, reverse) ==
    IF xs = <<>> THEN <<>>
    ELSE InsertKeyed(SortKeyed(SubSeq(xs, 1, Len(xs) - 1), reverse), xs[Len(xs)], reverse)

sorted(xs, reverse) == [i \in 1..Len(xs) |-> SortKeyed(xs, reverse)[i].v]

----------------------------------------------------------------------------
(* scripts/build_publications_from_bib.py: the normalizer *)

RECURSIVE latex_to_text(_)
\* LatexNodes2Text().latex_to_text on the LaTeX that occurs in the inputs of
\* this model: the accent macro \'e becomes U+00E9, a group loses its
\* braces, every other character stands for itself
latex_to_text(s) ==
    IF s = <<>> THEN <<>>
    ELSE IF StartsWith(s, <<"\\", "'", "e">>) THEN <<"E9">> \o latex_to_text(Drop(s, 3))
    ELSE IF Head(s) \in {"{", "}"} THEN latex_to_text(Tail(s))
    ELSE <<Head(s)>> \o latex_to_text(Tail(s))

latex_to_unicode(s) ==
    IF s = <<>> THEN <<>>
    ELSE Strip(CollapseSpace(Replace(Replace(latex_to_text(s), <<"{">>, <<>>), <<"}">>, <<>>)))

DoiHttps == <<"h", "t", "t", "p", "s", ":", "/", "/", "d", "o", "i", ".", "o", "r", "g", "/">>
DoiHttp == <<"h", "t", "t", "p", ":", "/", "/", "d", "o", "i", ".", "o", "r", "g", "/">>
DoiScheme == <<"d", "o", "i", ":">>

norm_doi(doi) ==
    LET a == MapLower(Strip(doi))
        b == Replace(Replace(a, DoiHttps, <<>>), DoiHttp, <<>>)
        c == Strip(Replace(b, DoiScheme, <<>>))
    IN  RemoveSpace(c)

RECURSIVE NFKD(_)
\* unicodedata.normalize("NFKD", s): U+00E9 decomposes into e and U+0301
NFKD(s) ==
    IF s = <<>> THEN <<>>
    ELSE IF Head(s) = "E9" THEN <<"e", "U301">> \o NFKD(Tail(s))
    ELSE IF Head(s) = "C9" THEN <<"E", "U301">> \o NFKD(Tail(s))
    ELSE <<Head(s)>> \o NFKD(Tail(s))

\* unicodedata.combining(ch) != 0
IsCombining(c) == c = "U301"

RECURSIVE DropCombining(_)
DropCombining(s) ==
    IF s = <<>> THEN <<>>
    ELSE IF IsCombining(Head(s)) THEN DropCombining(Tail(s))
    ELSE <<Head(s)>> \o DropCombining(Tail(s))

RECURSIVE SkipNonAlnum(_)
SkipNonAlnum(s) ==
    IF s # <<>> /\ ~IsAlnumLower(Head(s)) THEN SkipNonAlnum(Tail(s)) ELSE s

RECURSIVE NonAlnumToSpace(_)
\* re.sub(r"[^a-z0-9]+", " ", s)
NonAlnumToSpace(s) ==
    IF s = <<>> THEN <<>>
    ELSE IF ~IsAlnumLower(Head(s)) THEN <<" ">> \o NonAlnumToSpace(SkipNonAlnum(s))
    ELSE <<Head(s)>> \o NonAlnumToSpace(Tail(s))

norm_text(s) ==
    Strip(CollapseSpace(NonAlnumToSpace(DropCombining(NFKD(MapLower(Strip(s)))))))

RECURSIVE first_field(_, _)
\* entry.fields maps the names of the fields the entry has to their text
first_field(entry, names) ==
    IF names = <<>> THEN <<>>
    ELSE IF Head(names) \in DOMAIN entry.fields /\ Strip(entry.fields[Head(names)]) # <<>>
         THEN Strip(entry.fields[Head(names)])
    ELSE first_field(entry, Tail(names))

\* one person of entry.persons["author"]: [first_names, last_names: lists of
\* names, str: str(p)]
PersonName(p) ==
    LET first == Join(p.first_names, <<" ">>)
        last == Join(p.last_names, <<" ">>)
    IN  IF first # <<>> \/ last # <<>> THEN Strip(first \o <<" ">> \o last) ELSE p.str

get_authors(entry) ==
    IF entry.persons = <<>> THEN <<>>
    ELSE latex_to_unicode(Join([i \in 1..Len(entry.persons) |-> PersonName(entry.persons[i])],
                               <<",", " ">>))

Unknown == <<"U", "n", "k", "n", "o", "w", "n">>

\* build_items, lines 79-95 and 109-120: the record made of one entry
BibItem(entry) ==
    LET title_raw == first_field(entry, <<"title">>)
        yr == first_field(entry, <<"year">>)
        year_raw == IF yr # <<>> THEN yr ELSE Unknown
        journal_raw == first_field(entry, <<"journal", "journaltitle", "booktitle">>)
        doi_raw == first_field(entry, <<"doi">>)
        y == latex_to_unicode(year_raw)
        year == IF y # <<>> THEN y ELSE Unknown
        m == first_field(entry, <<"month">>)
        month == IF IsDigit(m) THEN zfill2(m) ELSE <<"0", "1">>
    IN  [year |-> year,
         sort_key |-> year \o <<"-">> \o month,
         authors |-> get_authors(entry),
         title |-> latex_to_unicode(title_raw),
         journal |-> latex_to_unicode(journal_raw),
         doi |-> norm_doi(latex_to_unicode(doi_raw)),
         pmid |-> first_field(entry, <<"pmid">>),
         url |-> first_field(entry, <<"url">>)]

\* a variant of DedupeKey that looks at the PMID before the DOI
DedupeKeyPmidFirst(it) ==
    IF it.pmid # <<>> THEN <<"pmid", it.pmid>>
    ELSE IF it.doi # <<>> THEN <<"doi", it.doi>>
    ELSE <<"titleyear", norm_text(it.title), it.year>>

\* build_items, lines 97-103: the dedupe key of the record made of an entry
DedupeKey(it) ==
    IF it.doi # <<>> THEN <<"doi", it.doi>>
    ELSE IF it.pmid # <<>> THEN <<"pmid", it.pmid>>
    ELSE <<"titleyear", norm_text(it.title), it.year>>

----------------------------------------------------------------------------
(* Lists *)

RECURSIVE Uniq(_)
\* the keys of a dict filled in the order of s: each value once, in the order
\* of its first occurrence
Uniq(s) ==
    IF s = <<>> THEN <<>>
    ELSE LET r == Uniq(SubSeq(s, 1, Len(s) - 1))
             x == s[Len(s)]
         IN  IF \E i \in 1..Len(r) : r[i] = x THEN r ELSE Append(r, x)

\* s[a:b] of Python, 0 <= a <= b
Slice(s, a, b) ==
    LET lo == IF a < Len(s) THEN a ELSE Len(s)
        hi == IF b < Len(s) THEN b ELSE Len(s)
    IN  SubSeq(s, lo + 1, hi)

RECURSIVE Concat(_)
\* the lists of a list of lists, one after the other
Concat(ss) == IF ss = <<>> THEN <<>> ELSE Head(ss) \o Concat(Tail(ss))

NL == <<"\n">>

----------------------------------------------------------------------------
(* scripts/build_publications_from_bib.py: the renderer *)

\* by_year[y] of render_html, a defaultdict(list): empty for a year no item has
by_year(its, y) == SelectSeq(its, LAMBDA it : it.year = y)

\* a variant of BibGroup that sorts without reverse=True
BibGroupAscending(its, y) ==
    LET g == by_year(its, y)
    IN  sorted([i \in 1..Len(g) |-> [k |-> OrdKey(g[i].sort_key), v |-> g[i]]], FALSE)

\* sorted(by_year[y], key=lambda x: x["sort_key"], reverse=True)
BibGroup(its, y) ==
    LET g == by_year(its, y)
    IN  sorted([i \in 1..Len(g) |-> [k |-> OrdKey(g[i].sort_key), v |-> g[i]]], TRUE)

BibLinks(p) ==
    (IF p.doi # <<>>
     THEN << <<"<a href=\"https://doi.org/">> \o html_escape(p.doi)
             \o <<"\" target=\"_blank\" rel=\"noopener\">DOI</a>">> >>
     ELSE <<>>)
    \o
    (IF p.pmid # <<>>
     THEN << <<"<a href=\"https://pubmed.ncbi.nlm.nih.gov/">> \o html_escape(p.pmid)
             \o <<"/\" target=\"_blank\" rel=\"noopener\">PubMed</a>">> >>
     ELSE <<>>)
    \o
    (IF p.url # <<>>
     THEN << <<"<a href=\"">> \o html_escape(p.url)
             \o <<"\" target=\"_blank\" rel=\"noopener\">Journal</a>">> >>
     ELSE <<>>)

\* a variant of BibLi that writes the title line also for an empty title
BibLiTitleAlways(p) ==
    LET links == BibLinks(p)
    IN  << <<"    <li>">> >>
        \o (IF p.authors # <<>>
            THEN << <<"      ">> \o html_escape(p.authors) \o <<".">> >> ELSE <<>>)
        \o << <<"      <em>">> \o html_escape(p.title) \o <<"</em>">> >>
        \o (IF p.journal # <<>>
            THEN << <<"      ">> \o html_escape(p.journal) \o <<".">> >> ELSE <<>>)
        \o (IF links # <<>>
            THEN << <<"      ", "<span class=\"pub-links\">">> \o Join(links, <<" ">>)
                    \o <<"</span>">> >>
            ELSE <<>>)
        \o << <<"    </li>">> >>

\* _render_year_details, lines 134-163: the lines of one publication
BibLi(p) ==
    LET authors == IF p.authors # <<>> THEN html_escape(p.authors) ELSE <<>>
        title == IF p.title # <<>> THEN html_escape(p.title) ELSE <<>>
        journal == IF p.journal # <<>> THEN html_escape(p.journal) ELSE <<>>
        links == BibLinks(p)
        links_html == IF links # <<>>
                      THEN <<"<span class=\"pub-links\">">> \o Join(links, <<" ">>)
                           \o <<"</span>">>
                      ELSE <<>>
    IN  << <<"    <li>">> >>
        \o (IF authors # <<>> THEN << <<"      ">> \o authors \o <<".">> >> ELSE <<>>)
        \o (IF title # <<>> THEN << <<"      <em>">> \o title \o <<"</em>">> >> ELSE <<>>)
        \o (IF journal # <<>> THEN << <<"      ">> \o journal \o <<".">> >> ELSE <<>>)
        \o (IF links_html # <<>> THEN << <<"      ">> \o links_html >> ELSE <<>>)
        \o << <<"    </li>">> >>

_render_year_details(year, group_items, open_by_default) ==
    LET year_str == html_escape(year)
        out == << <<"<details class=\"pub-year-group\" id=\"y">> \o year_str
                  \o <<IF open_by_default THEN "\" open>" ELSE "\">">>,
                  <<"  <summary class=\"pub-year\">">> \o year_str \o <<"</summary>">>,
                  <<"  <ol class=\"list\">">> >>
               \o Concat([i \in 1..Len(group_items) |-> BibLi(group_items[i])])
               \o << <<"  </ol>">>, <<"</details>">> >>
    IN  Join(out, NL)

\* year_key of render_html
year_key(y) == IF IsDigit(y) THEN <<0, 0 - int(y)>> ELSE <<1, 0>>

Controls ==
    <<"<div class=\"pub-controls\" aria-label=\"Publication list controls\">\n  <button type=\"button\" class=\"btn btn-small\" id=\"pub-expand-all\">Expand all</button>\n  <button type=\"button\" class=\"btn btn-small\" id=\"pub-collapse-all\">Collapse all</button>\n</div>">>

\* render_html, lines 226-241: the parts of one bucket of older years
BucketParts(its, older, start, size) ==
    LET end == start + size - 1
        label == str(start) \o <<"U2013">> \o str(end)
        bucket_id == <<"r">> \o str(start) \o <<"-">> \o str(end)
        mine == SelectSeq([i \in 1..Len(older) |-> int(older[i])],
                          LAMBDA yi : (yi \div size) * size = start)
        yis == sorted([i \in 1..Len(mine) |-> [k |-> <<mine[i]>>, v |-> mine[i]]], TRUE)
    IN  << <<"<details class=\"pub-range-group\" id=\"">> \o html_escape(bucket_id) \o <<"\">">>,
           <<"  <summary class=\"pub-range\">">> \o html_escape(label) \o <<"</summary>">>,
           <<"  <div class=\"pub-range-inner\">">> >>
        \o [i \in 1..Len(yis) |->
              _render_year_details(str(yis[i]), BibGroup(its, str(yis[i])), FALSE)]
        \o << <<"  </div>">>, <<"</details>">> >>

render_html(its, open_last_n_years, next_n_years_collapsed, older_bucket_size) ==
    LET keys == Uniq([i \in 1..Len(its) |-> its[i].year])
        sorted_years == sorted([i \in 1..Len(keys) |-> [k |-> year_key(keys[i]), v |-> keys[i]]],
                               FALSE)
        numeric_years_desc == SelectSeq(sorted_years, IsDigit)
        recent == Slice(numeric_years_desc, 0, open_last_n_years)
        next_block == Slice(numeric_years_desc, open_last_n_years,
                            open_last_n_years + next_n_years_collapsed)
        older == Slice(numeric_years_desc, open_last_n_years + next_n_years_collapsed,
                       Len(numeric_years_desc))
        starts == Uniq([i \in 1..Len(older) |->
                          (int(older[i]) \div older_bucket_size) * older_bucket_size])
        bucket_ranges == sorted([i \in 1..Len(starts) |-> [k |-> <<starts[i]>>, v |-> starts[i]]],
                                TRUE)
        non_numeric_years == SelectSeq(sorted_years, LAMBDA y : ~IsDigit(y))
        parts == <<Controls>>
                 \o [i \in 1..Len(recent) |->
                       _render_year_details(recent[i], BibGroup(its, recent[i]), TRUE)]
                 \o [i \in 1..Len(next_block) |->
                       _render_year_details(next_block[i], BibGroup(its, next_block[i]), FALSE)]
                 \o Concat([i \in 1..Len(bucket_ranges) |->
                              BucketParts(its, older, bucket_ranges[i], older_bucket_size)])
                 \o [i \in 1..Len(non_numeric_years) |->
                       _render_year_details(non_numeric_years[i],
                                            BibGroup(its, non_numeric_years[i]), FALSE)]
    IN  Join(parts, NL)

----------------------------------------------------------------------------
(* scripts/build_publications.py: the normalizer and the renderer *)

clean(s) == CollapseSpace(Strip(s))

\* pick_best_doi / pick_best_pmid: the first external id of the type, cleaned;
\* None, which is <<>> here, if there is none (both are false in "if doi:")
PickBest(ext_ids, type) ==
    LET hits == {i \in 1..Len(ext_ids) : MapLower(ext_ids[i].type) = type}
    IN  IF hits = {} THEN <<>>
        ELSE clean(ext_ids[CHOOSE i \in hits : \A j \in hits : i <= j].value)

pick_best_doi(ext_ids) == PickBest(ext_ids, <<"d", "o", "i">>)

pick_best_pmid(ext_ids) == PickBest(ext_ids, <<"p", "m", "i", "d">>)

\* contributors: the credit-name values of the contributor list
format_authors(contributors) ==
    LET names == SelectSeq([i \in 1..Len(contributors) |-> clean(contributors[i])],
                           LAMBDA nm : nm # <<>>)
    IN  Join(names, <<",", " ">>)

Undated == <<"U", "n", "d", "a", "t", "e", "d">>

\* main, lines 125-152: the record made of one work w; a value the answer
\* lacks (None) is <<>>
OrcidItem(w) ==
    LET year == IF w.year # <<>> THEN w.year ELSE Undated
        month == IF w.month # <<>> THEN w.month ELSE <<"0", "1">>
        day == IF w.day # <<>> THEN w.day ELSE <<"0", "1">>
    IN  [year |-> year,
         title |-> clean(w.title),
         journal |-> clean(w.journal),
         doi |-> pick_best_doi(w.external_ids),
         pmid |-> pick_best_pmid(w.external_ids),
         authors |-> format_authors(w.contributors),
         date |-> IF year # Undated
                  THEN year \o <<"-">> \o month \o <<"-">> \o day
                  ELSE <<"0", "0", "0", "0", "-", "0", "1", "-", "0", "1">>]

\* sorted(by_year[y], key=lambda x: x.get("date", ""), reverse=True)
OrcidGroup(its, y) ==
    LET g == by_year(its, y)
    IN  sorted([i \in 1..Len(g) |-> [k |-> OrdKey(g[i].date), v |-> g[i]]], TRUE)

\* build_html, lines 84-106: the lines of one publication
OrcidLi(it) ==
    LET links == (IF it.doi # <<>>
                  THEN << <<"<a href=\"https://doi.org/">> \o it.doi
                          \o <<"\" target=\"_blank\" rel=\"noopener\">DOI</a>">> >>
                  ELSE <<>>)
                 \o
                 (IF it.pmid # <<>>
                  THEN << <<"<a href=\"https://pubmed.ncbi.nlm.nih.gov/">> \o it.pmid
                          \o <<"/\" target=\"_blank\" rel=\"noopener\">PubMed</a>">> >>
                  ELSE <<>>)
        links_html == IF links # <<>>
                      THEN <<"<span class=\"pub-links\">">> \o Join(links, <<" ">>)
                           \o <<"</span>">>
                      ELSE <<>>
    IN  << <<"    <li>">> >>
        \o (IF it.authors # <<>> THEN << <<"      ">> \o it.authors \o <<".">> >> ELSE <<>>)
        \o << <<"      <em>">> \o it.title \o <<"</em>">> >>
        \o (IF it.journal # <<>> THEN << <<"      ">> \o it.journal \o <<".">> >> ELSE <<>>)
        \o << <<"      ">> \o links_html >>
        \o << <<"    </li>">> >>

\* build_html, lines 79-108: the lines of one year
OrcidYear(its, y) ==
    << <<"<div class=\"pub-year-group\" id=\"y">> \o y \o <<"\">">>,
       <<"  <h3 class=\"pub-year\">">> \o y \o <<"</h3>">>,
       <<"  <ol class=\"list\">">> >>
    \o Concat([i \in 1..Len(OrcidGroup(its, y)) |-> OrcidLi(OrcidGroup(its, y)[i])])
    \o << <<"  </ol>">>, <<"</div>">> >>

\* years = sorted(by_year.keys(), reverse=True): the year strings themselves
\* are compared
OrcidYears(its) ==
    LET keys == Uniq([i \in 1..Len(its) |-> its[i].year])
    IN  sorted([i \in 1..Len(keys) |-> [k |-> OrdKey(keys[i]), v |-> keys[i]]], TRUE)

build_html(its) ==
    LET years == OrcidYears(its)
    IN  Join(Concat([i \in 1..Len(years) |-> OrcidYear(its, years[i])]), NL)

----------------------------------------------------------------------------
(* The destination document *)

\* START and END of the script gen, cut to the characters that matter: the
\* comment brackets "<" and ">", which html.escape rewrites, around one
\* letter that stands for the text between them
START(g) == IF g = "bib" THEN <<"<", "S", ">">> ELSE <<"<", "s", ">">>

END(g) == IF g = "bib" THEN <<"<", "E", ">">> ELSE <<"<", "e", ">">>

\* src.split(START, 1) and rest.split(END, 1) of inject and of main: the text
\* before the first START, and the text behind the first END that follows it
SplitBefore(g, src) == SubSeq(src, 1, Find(src, START(g)) - 1)

SplitRest(g, src) == Drop(src, Find(src, START(g)) + Len(START(g)) - 1)

\* a variant of SplitAfter that splits at the last END (rsplit)
SplitAfterLastEnd(g, src) ==
    LET rest == SplitRest(g, src)
        hits == {i \in 1..(Len(rest) - Len(END(g)) + 1) :
                    SubSeq(rest, i, i + Len(END(g)) - 1) = END(g)}
    IN  Drop(rest, (CHOOSE i \in hits : \A j \in hits : j <= i) + Len(END(g)) - 1)

SplitAfter(g, src) ==
    LET rest == SplitRest(g, src)
    IN  Drop(rest, Find(rest, END(g)) + Len(END(g)) - 1)

\* START not in src or END not in src
MarkersMissing(g, src) == ~Contains(src, START(g)) \/ ~Contains(src, END(g))

\* "_, after = rest.split(END, 1)" raises ValueError: rest holds no END
SplitFails(g, src) == ~Contains(SplitRest(g, src), END(g))

\* new = before + START + "\n" + fragment + "\n" + END + after
Merged(g, src, frag) ==
    SplitBefore(g, src) \o START(g) \o NL \o frag \o NL \o END(g) \o SplitAfter(g, src)

----------------------------------------------------------------------------
(* Bounds and inputs *)

MaxEntries == 2     \* entries of the bibliography file of a whole run
MaxSummaries == 2   \* work-summaries of the ORCID answer of a whole run
MaxRuns == 2        \* runs of the generator, one after the other
MaxDedup == 3       \* entries handed to build_items alone
MaxItems == 3       \* records handed to a renderer alone
MaxOpen == 1        \* open_last_n_years, next_n_years_collapsed: 0..MaxOpen

\* all sequences over S of a length up to n
SeqsUpTo(S, n) == UNION {[1..k -> S] : k \in 0..n}

Y2023 == <<"2", "0", "2", "3">>
Y2021 == <<"2", "0", "2", "1">>
Y0999 == <<"0", "9", "9", "9">>

DoiAB == <<"1", "0", ".", "1", "/", "A", "B">>
DoiUrlAb == DoiHttps \o <<"1", "0", ".", "1", "/", "a", "b", " ">>

\* The entries a bibliography file of a whole run is made of: a publication,
\* the same publication entered again with its DOI written as a URL, and an
\* entry without year whose title holds the END marker and whose URL holds
\* a quote.
BibEntries ==
    { [fields |-> [title |-> <<"T", "e", "a">>, year |-> Y2023, journal |-> <<"J">>,
                   doi |-> DoiAB, month |-> <<"3">>],
       persons |-> << [first_names |-> << <<"A">> >>, last_names |-> << <<"B">> >>,
                       str |-> <<"B", ",", " ", "A">>] >>],
      [fields |-> [title |-> <<"t", "e", "a">>, year |-> Y2023, doi |-> DoiUrlAb,
                   pmid |-> <<"7">>],
       persons |-> <<>>],
      [fields |-> [title |-> <<"<", "E", ">", "&">>, booktitle |-> <<"{", "K", "}">>,
                   url |-> <<"u", "\"">>, month |-> <<"m">>],
       persons |-> << [first_names |-> <<>>, last_names |-> <<>>, str |-> <<"x">>] >>] }

\* The entries build_items alone is tried on: three titles, of which the
\* first two differ in case, accent and punctuation only, and for each the
\* four ways of carrying identifiers.
DedupTitles ==
    { [title |-> <<"C", "A", "F", "C9">>, year |-> Y2023],
      [title |-> <<"c", "a", "f", "\\", "'", "e", "!">>, year |-> Y2023],
      [title |-> <<"C", "A", "F", "C9">>] }

DedupIds ==
    { [month |-> <<"1", "1">>],
      [doi |-> DoiAB],
      [doi |-> DoiUrlAb, pmid |-> <<"7">>],
      [pmid |-> <<"7">>] }

DedupEntries == {[fields |-> t @@ d, persons |-> <<>>] : t \in DedupTitles, d \in DedupIds}

\* What https://pub.orcid.org/v3.0/<orcid>/work/<put-code> answers for the
\* put-codes 1, 2, 3: a work, the same work as a second source asserts it
\* (the other work-summary of its group), and a work without date whose
\* title holds the END marker.
Catalogue ==
    << [title |-> <<"T", "e", "a">>, journal |-> <<"J">>, year |-> Y2023,
        month |-> <<"0", "3">>, day |-> <<>>,
        external_ids |-> << [type |-> <<"d", "o", "i">>, value |-> <<"1", "0", "/", "x">>] >>,
        contributors |-> << <<"A", " ", " ", "B">> >>],
       [title |-> <<"T", "e", "a">>, journal |-> <<>>, year |-> Y2023,
        month |-> <<"0", "3">>, day |-> <<"0", "9">>,
        external_ids |-> << [type |-> <<"P", "M", "I", "D">>, value |-> <<"7">>],
                            [type |-> <<"D", "O", "I">>, value |-> <<"1", "0", "/", "x">>] >>,
        contributors |-> <<>>],
       [title |-> <<"<", "e", ">">>, journal |-> <<>>, year |-> <<>>,
        month |-> <<>>, day |-> <<>>, external_ids |-> <<>>, contributors |-> <<>>] >>

\* a work-summary: <<put-code>>, or <<>> if its put-code is None
Summaries == {<<>>} \cup {<<c>> : c \in 1..Len(Catalogue)}

\* the work-summaries of an answer: no two carry the same put-code
SummaryLists(n) ==
    {ss \in SeqsUpTo(Summaries, n) :
        \A a, b \in 1..Len(ss) : (a # b /\ ss[a] # <<>>) => ss[a] # ss[b]}

\* The destination documents a whole run is tried on
DestDocs(g) ==
    { <<"p">> \o START(g) \o <<"o">> \o END(g) \o <<"q">>,
      START(g) \o END(g),
      <<"p">> \o START(g) \o <<"o">> \o END(g) \o <<"q">> \o END(g),
      END(g) \o START(g) \o <<"o">> \o END(g),
      <<"p">> \o END(g) \o <<"q">> \o START(g) \o <<"o">>,
      <<"p">> \o START(g) \o <<"o">>,
      <<"p">> \o END(g),
      <<"p">> }

\* the keyword arguments main passes to render_html
MainArgs == [open_last_n_years |-> 5, next_n_years_collapsed |-> 5, older_bucket_size |-> 10]

BucketSizes == {2, 10}

RenderArgs ==
    [open_last_n_years : 0..MaxOpen, next_n_years_collapsed : 0..MaxOpen,
     older_bucket_size : BucketSizes]

BibRecord(year, month, title, authors, journal, doi, pmid, url) ==
    [year |-> year, sort_key |-> year \o <<"-">> \o month, authors |-> authors,
     title |-> title, journal |-> journal, doi |-> doi, pmid |-> pmid, url |-> url]

\* The records render_html alone is tried on
BibRecords ==
    { BibRecord(Y2023, <<"0", "3">>, <<"a">>, <<"B">>, <<"J">>, <<"1", "0", "/", "x">>, <<>>, <<>>),
      BibRecord(Y2023, <<"1", "1">>, <<"b">>, <<>>, <<>>, <<>>, <<"7">>, <<"u">>),
      BibRecord(Y2023, <<"0", "3">>, <<>>, <<>>, <<"J">>, <<>>, <<"8">>, <<>>),
      BibRecord(Y2021, <<"0", "1">>, <<"<", "d", ">">>, <<>>, <<"J">>, <<>>, <<>>, <<>>),
      BibRecord(Y0999, <<"0", "1">>, <<"e">>, <<>>, <<>>, <<>>, <<>>, <<>>),
      BibRecord(Unknown, <<"0", "1">>, <<"f">>, <<"B">>, <<>>, <<>>, <<>>, <<>>) }

OrcidRecord(year, date, title, authors, journal, doi, pmid) ==
    [year |-> year, title |-> title, journal |-> journal, doi |-> doi, pmid |-> pmid,
     authors |-> authors, date |-> date]

\* The records build_html alone is tried on
OrcidRecords ==
    { OrcidRecord(Y2023, Y2023 \o <<"-", "0", "3", "-", "0", "1">>, <<"a">>, <<"B">>, <<"J">>,
                  <<"1", "0", "/", "x">>, <<>>),
      OrcidRecord(Y2023, Y2023 \o <<"-", "1", "1", "-", "0", "1">>, <<"b">>, <<>>, <<>>,
                  <<>>, <<"7">>),
      OrcidRecord(Y2023, Y2023 \o <<"-", "0", "3", "-", "0", "1">>, <<>>, <<>>, <<"J">>, <<>>, <<"8">>),
      OrcidRecord(Y2021, Y2021 \o <<"-", "0", "1", "-", "0", "1">>, <<"<", "d", ">">>, <<>>,
                  <<"J">>, <<>>, <<>>),
      OrcidRecord(Undated, <<"0", "0", "0", "0", "-", "0", "1", "-", "0", "1">>, <<"f">>,
                  <<"B">>, <<>>, <<>>, <<>>) }

----------------------------------------------------------------------------
(* A run of a generator *)

\* what a run leaves alone whatever it does: the script, its inputs, the
\* bookkeeping of the runs
Fixed == UNCHANGED <<gen, run, args, bibExists, entries, summaries, destLog, exitLog>>

\* SystemExit with a message, or an exception nothing catches: the
\* interpreter exits with status 1
Abort ==
    /\ pc' = "aborted"
    /\ exitCode' = 1

\* build_publications_from_bib.py, main, lines 267-268
BibMain ==
    /\ gen = "bib" /\ pc = "main"
    /\ IF ~bibExists
       THEN /\ Abort
            /\ UNCHANGED <<seen, items, idx>>
       ELSE /\ pc' = "build_items"
            /\ seen' = {}
            /\ items' = <<>>
            /\ idx' = 0
            /\ UNCHANGED exitCode
    /\ UNCHANGED <<put_codes, fragment, fragFile, fragRun, dest>>
    /\ Fixed

\* build_items, lines 78-120: one entry of the loop
BuildItemsStep ==
    /\ pc = "build_items" /\ idx < Len(entries)
    /\ LET it == BibItem(entries[idx + 1])
           dedupe_key == DedupeKey(it)
       IN  IF dedupe_key \in seen
           THEN UNCHANGED <<seen, items>>
           ELSE /\ seen' = seen \cup {dedupe_key}
                /\ items' = Append(items, it)
    /\ idx' = idx + 1
    /\ UNCHANGED <<pc, put_codes, fragment, fragFile, fragRun, dest, exitCode>>
    /\ Fixed

\* build_items, line 122
BuildItemsReturn ==
    /\ pc = "build_items" /\ idx = Len(entries)
    /\ pc' = "render"
    /\ UNCHANGED <<put_codes, idx, seen, items, fragment, fragFile, fragRun, dest, exitCode>>
    /\ Fixed

\* build_publications_from_bib.py, main, lines 271-276
RenderHtml ==
    /\ pc = "render"
    /\ fragment' = render_html(items, args.open_last_n_years, args.next_n_years_collapsed,
                               args.older_bucket_size)
    /\ pc' = "inject"
    /\ UNCHANGED <<put_codes, idx, seen, items, fragFile, fragRun, dest, exitCode>>
    /\ Fixed

\* a variant of InjectInto that writes what it has before it looks for END
InjectIntoEager(g) ==
    IF MarkersMissing(g, dest)
    THEN /\ Abort
         /\ UNCHANGED dest
    ELSE IF SplitFails(g, dest)
    THEN /\ Abort
         /\ dest' = SplitBefore(g, dest) \o START(g) \o NL \o fragment \o NL
    ELSE /\ dest' = Merged(g, dest, fragment)
         /\ pc' = "done"
         /\ exitCode' = 0

\* inject of the one script, lines 165-173 of main of the other
InjectInto(g) ==
    IF MarkersMissing(g, dest) \/ SplitFails(g, dest)
    THEN /\ Abort
         /\ UNCHANGED dest
    ELSE /\ dest' = Merged(g, dest, fragment)
         /\ pc' = "done"
         /\ exitCode' = 0

\* build_publications_from_bib.py, inject and the end of main
Inject ==
    /\ pc = "inject"
    /\ InjectInto("bib")
    /\ UNCHANGED <<put_codes, idx, seen, items, fragment, fragFile, fragRun>>
    /\ Fixed

\* build_publications.py, main, line 113: orcid_works, whose request may fail
OrcidWorks ==
    /\ gen = "orcid" /\ pc = "main"
    /\ \E ok \in BOOLEAN :
         IF ok
         THEN /\ put_codes' = Concat(summaries)
              /\ items' = <<>>
              /\ idx' = 0
              /\ pc' = "details"
              /\ UNCHANGED exitCode
         ELSE /\ Abort
              /\ UNCHANGED <<put_codes, items, idx>>
    /\ UNCHANGED <<seen, fragment, fragFile, fragRun, dest>>
    /\ Fixed

\* build_publications.py, main, lines 116-152: one put-code of the loop, whose
\* request may fail
OrcidWorkDetail ==
    /\ pc = "details" /\ idx < Len(put_codes)
    /\ \E ok \in BOOLEAN :
         IF ok
         THEN /\ items' = Append(items, OrcidItem(Catalogue[put_codes[idx + 1]]))
              /\ idx' = idx + 1
              /\ UNCHANGED <<pc, exitCode>>
         ELSE /\ Abort
              /\ UNCHANGED <<items, idx>>
    /\ UNCHANGED <<put_codes, seen, fragment, fragFile, fragRun, dest>>
    /\ Fixed

\* build_publications.py, main, lines 159-162
BuildHtml ==
    /\ pc = "details" /\ idx = Len(put_codes)
    /\ fragment' = build_html(items)
    /\ fragFile' = <<fragment'>>
    /\ fragRun' = run
    /\ pc' = "splice"
    /\ UNCHANGED <<put_codes, idx, seen, items, dest, exitCode>>
    /\ Fixed

\* build_publications.py, main, lines 165-173
OrcidSplice ==
    /\ pc = "splice"
    /\ InjectInto("orcid")
    /\ UNCHANGED <<put_codes, idx, seen, items, fragment, fragFile, fragRun>>
    /\ Fixed

\* the generator is run again, on the same source and on the files the run
\* before has left
Rerun ==
    /\ pc \in {"done", "aborted"} /\ run < MaxRuns
    /\ run' = run + 1
    /\ pc' = "main"
    /\ exitCode' = -1
    /\ destLog' = Append(destLog, dest)
    /\ exitLog' = Append(exitLog, exitCode)
    /\ put_codes' = <<>> /\ idx' = 0 /\ seen' = {} /\ items' = <<>> /\ fragment' = <<>>
    /\ UNCHANGED <<gen, args, bibExists, entries, summaries, fragFile, fragRun, dest>>

\* a renderer called on its own
CallRenderHtml ==
    /\ pc = "call_render_html"
    /\ fragment' = render_html(items, args.open_last_n_years, args.next_n_years_collapsed,
                               args.older_bucket_size)
    /\ pc' = "returned"
    /\ UNCHANGED <<put_codes, idx, seen, items, fragFile, fragRun, dest, exitCode>>
    /\ Fixed

CallBuildHtml ==
    /\ pc = "call_build_html"
    /\ fragment' = build_html(items)
    /\ pc' = "returned"
    /\ UNCHANGED <<put_codes, idx, seen, items, fragFile, fragRun, dest, exitCode>>
    /\ Fixed

----------------------------------------------------------------------------
(* Specifications *)

Fresh ==
    /\ run = 1 /\ exitCode = -1
    /\ put_codes = <<>> /\ idx = 0 /\ seen = {}
    /\ fragment = <<>> /\ fragFile = <<>> /\ fragRun = 0
    /\ destLog = <<dest>> /\ exitLog = <<>>

\* a whole run of either generator, and the runs after it
Init ==
    /\ gen \in {"bib", "orcid"}
    /\ pc = "main"
    /\ args = MainArgs
    /\ IF gen = "bib"
       THEN /\ bibExists \in BOOLEAN
            /\ entries \in SeqsUpTo(BibEntries, MaxEntries)
            /\ summaries = <<>>
       ELSE /\ bibExists = FALSE
            /\ entries = <<>>
            /\ summaries \in SummaryLists(MaxSummaries)
    /\ dest \in DestDocs(gen)
    /\ items = <<>>
    /\ Fresh

Next ==
    \/ BibMain \/ BuildItemsStep \/ BuildItemsReturn \/ RenderHtml \/ Inject
    \/ OrcidWorks \/ OrcidWorkDetail \/ BuildHtml \/ OrcidSplice
    \/ Rerun

Spec == Init /\ [][Next]_vars

\* build_items alone, on every list of entries
InitDedup ==
    /\ gen = "bib"
    /\ pc = "build_items"
    /\ args = MainArgs
    /\ bibExists = TRUE
    /\ entries \in SeqsUpTo(DedupEntries, MaxDedup)
    /\ summaries = <<>>
    /\ dest = <<>>
    /\ items = <<>>
    /\ Fresh

NextDedup == BuildItemsStep \/ BuildItemsReturn

SpecDedup == InitDedup /\ [][NextDedup]_vars

\* a renderer alone, on every list of records
InitRender ==
    /\ gen \in {"bib", "orcid"}
    /\ bibExists = (gen = "bib")
    /\ entries = <<>> /\ summaries = <<>>
    /\ dest = <<>>
    /\ Fresh
    /\ IF gen = "bib"
       THEN /\ pc = "call_render_html"
            /\ args \in RenderArgs
            /\ items \in SeqsUpTo(BibRecords, MaxItems)
       ELSE /\ pc = "call_build_html"
            /\ args = MainArgs
            /\ items \in SeqsUpTo(OrcidRecords, MaxItems)

NextRender == CallRenderHtml \/ CallBuildHtml

SpecRender == InitRender /\ [][NextRender]_vars

----------------------------------------------------------------------------
(* Reading a fragment back *)

\* the positions of token t in s
Positions(s, t) == {i \in 1..Len(s) : s[i] = t}

\* the position of the first token t of s behind position i, Len(s) + 1 if none
NextAt(s, t, i) ==
    LET later == {j \in Positions(s, t) : j > i}
    IN  IF later = {} THEN Len(s) + 1 ELSE CHOOSE j \in later : \A k \in later : j <= k

\* the elements of a finite set of integers in ascending order
RECURSIVE Ascending(_)
Ascending(S) ==
    IF S = {} THEN <<>>
    ELSE LET m == CHOOSE x \in S : \A y \in S : x <= y
         IN  <<m>> \o Ascending(S \ {m})

LabelOpen(g) == IF g = "bib" THEN "  <summary class=\"pub-year\">" ELSE "  <h3 class=\"pub-year\">"

LabelClose(g) == IF g = "bib" THEN "</summary>" ELSE "</h3>"

\* the positions of the year headings of a fragment, in the order they are
\* rendered in
LabelAt(g, frag) == Ascending(Positions(frag, LabelOpen(g)))

\* the text of the year heading at position i
LabelText(g, frag, i) == SubSeq(frag, i + 1, NextAt(frag, LabelClose(g), i) - 1)

\* the year labels of a fragment, in the order they are rendered in
YearLabels(g, frag) == [k \in 1..Len(LabelAt(g, frag)) |-> LabelText(g, frag, LabelAt(g, frag)[k])]

\* the list items between the positions a and b of a fragment, each from its
\* "<li>" line to its "</li>" line, in the order they are rendered in
LiBlocks(frag, a, b) ==
    LET at == Ascending({i \in Positions(frag, "    <li>") : a < i /\ i < b})
    IN  [k \in 1..Len(at) |-> SubSeq(frag, at[k], NextAt(frag, "    </li>", at[k]))]

\* the list items of the year group whose heading is at position i
GroupLis(frag, i) == LiBlocks(frag, i, NextAt(frag, "  </ol>", i))

----------------------------------------------------------------------------
(* C1 *)

\* the dedupe key as the data model words it, read off a record
KeyOfRecord(it) ==
    IF it.doi # <<>> THEN <<"doi", norm_doi(it.doi)>>
    ELSE IF it.pmid # <<>> THEN <<"pmid", it.pmid>>
    ELSE <<"titleyear", norm_text(it.title), it.year>>

\* the positions of the entries that no earlier entry shares its key with
FirstOfKey(es) ==
    {i \in 1..Len(es) :
        \A j \in 1..(i - 1) : KeyOfRecord(BibItem(es[j])) # KeyOfRecord(BibItem(es[i]))}

\* C1: whatever part of the entries build_items has consumed, its list holds
\* the records of exactly those entries that are the first of their dedupe
\* key, in the order of the entries; so it is a subsequence of the input in
\* the same order, no two of its records share a key, and the record kept for
\* a key is the first one carrying it.
C1_FirstSeenKept ==
    pc \in {"build_items", "render"} =>
        LET done == SubSeq(entries, 1, idx)
            keep == Ascending(FirstOfKey(done))
        IN  /\ items = [k \in 1..Len(keep) |-> BibItem(done[keep[k]])]
            /\ \A a, b \in 1..Len(items) :
                 a # b => KeyOfRecord(items[a]) # KeyOfRecord(items[b])

\* build_items has returned, it has dropped an entry whose DOI is written
\* differently from the DOI of the entry it collides with, and has kept an
\* entry behind the dropped one
C1_Witness ==
    /\ pc = "render" /\ Len(entries) = 3 /\ Len(items) = 2
    /\ "doi" \in DOMAIN entries[1].fields /\ "doi" \in DOMAIN entries[2].fields
    /\ entries[1].fields.doi # entries[2].fields.doi
    /\ items[1] = BibItem(entries[1])
    /\ items[2] = BibItem(entries[3])

----------------------------------------------------------------------------
(* C2 *)

\* C2: the list the ORCID generator hands to build_html holds no two records
\* that share a dedupe key.
C2_OrcidDeduplicated ==
    (gen = "orcid" /\ pc \in {"splice", "done"}) =>
        \A a, b \in 1..Len(items) : a # b => KeyOfRecord(items[a]) # KeyOfRecord(items[b])

----------------------------------------------------------------------------
(* C3 *)

\* the labels ls are in the order the spec gives the year groups: the numeric
\* ones strictly descending, every other one behind all numeric ones
YearOrder(ls) ==
    \A a, b \in 1..Len(ls) :
        a < b => /\ (IsDigit(ls[a]) /\ IsDigit(ls[b])) => int(ls[a]) > int(ls[b])
                 /\ IsDigit(ls[b]) => IsDigit(ls[a])

\* C3: in the fragment of either renderer the numeric year groups come in
\* strictly descending order and every sentinel year group comes behind all
\* numeric ones.
C3_YearGroupOrder ==
    pc = "returned" => YearOrder(YearLabels(gen, fragment))

----------------------------------------------------------------------------
(* C4 *)

\* C4: no "<", ">" or double quote of a record field reaches the fragment of
\* either generator: each is replaced by its entity.
C4_FieldsEscaped ==
    \A i \in 1..Len(fragment) : fragment[i] \notin {"<", ">", "\""}

----------------------------------------------------------------------------
(* C8 *)

\* C8: a renderer emits exactly one list item for each record it is handed.
C8_OneItemPerRecord ==
    pc = "returned" => Len(LiBlocks(fragment, 0, Len(fragment) + 1)) = Len(items)

----------------------------------------------------------------------------
(* C9 *)

\* a field as the renderer of script g is to show it
Shown(g, text) == IF g = "bib" THEN html_escape(text) ELSE text

\* the anchors of a record, one for each of DOI, PMID and URL it has; a
\* record of the ORCID generator has no URL
AnchorsOf(g, it) ==
    (IF it.doi # <<>>
     THEN << <<"<a href=\"https://doi.org/">> \o Shown(g, it.doi)
             \o <<"\" target=\"_blank\" rel=\"noopener\">DOI</a>">> >>
     ELSE <<>>)
    \o
    (IF it.pmid # <<>>
     THEN << <<"<a href=\"https://pubmed.ncbi.nlm.nih.gov/">> \o Shown(g, it.pmid)
             \o <<"/\" target=\"_blank\" rel=\"noopener\">PubMed</a>">> >>
     ELSE <<>>)
    \o
    (IF g = "bib" /\ it.url # <<>>
     THEN << <<"<a href=\"">> \o Shown(g, it.url)
             \o <<"\" target=\"_blank\" rel=\"noopener\">Journal</a>">> >>
     ELSE <<>>)

\* the links line: the anchors in their span; without anchors the one
\* renderer writes no line and the other an empty one
LinksLine(g, it) ==
    IF AnchorsOf(g, it) # <<>>
    THEN << <<"      ", "<span class=\"pub-links\">">> \o Join(AnchorsOf(g, it), <<" ">>)
            \o <<"</span>">> >>
    ELSE IF g = "bib" THEN <<>> ELSE << <<"      ">> >>

\* the list item of a record: the authors line if there are authors, the
\* title in <em> (also when empty, if emptyTitleToo), the journal line if
\* there is a journal, the links line
ItemMarkup(g, it, emptyTitleToo) ==
    Join(<< <<"    <li>">> >>
         \o (IF it.authors # <<>>
             THEN << <<"      ">> \o Shown(g, it.authors) \o <<".">> >> ELSE <<>>)
         \o (IF it.title # <<>> \/ emptyTitleToo
             THEN << <<"      <em>">> \o Shown(g, it.title) \o <<"</em>">> >> ELSE <<>>)
         \o (IF it.journal # <<>>
             THEN << <<"      ">> \o Shown(g, it.journal) \o <<".">> >> ELSE <<>>)
         \o LinksLine(g, it)
         \o << <<"    </li>">> >>,
         NL)

AllLis == LiBlocks(fragment, 0, Len(fragment) + 1)

\* C9 as stated: every list item of the fragment of either renderer is the
\* markup of one of the records, with the title in <em> always there.
C9_TitleAlways ==
    pc = "returned" =>
        \A k \in 1..Len(AllLis) :
            \E n \in 1..Len(items) : AllLis[k] = ItemMarkup(gen, items[n], TRUE)

\* C9 as amended: every list item of the fragment is the markup of one of the
\* records, in which build_html writes the title in <em> always and
\* render_html only if the title is not empty.
C9_TitleIfAny ==
    pc = "returned" =>
        \A k \in 1..Len(AllLis) :
            \E n \in 1..Len(items) : AllLis[k] = ItemMarkup(gen, items[n], gen = "orcid")

\* render_html has rendered a record without title and one with authors,
\* title, journal and DOI
C9_Witness ==
    /\ pc = "returned" /\ gen = "bib"
    /\ \E n \in 1..Len(items) :
         /\ items[n].title = <<>> /\ items[n].journal # <<>>
         /\ \E k \in 1..Len(AllLis) : AllLis[k] = ItemMarkup(gen, items[n], FALSE)
    /\ \E n \in 1..Len(items) :
         /\ items[n].title # <<>> /\ items[n].authors # <<>> /\ items[n].doi # <<>>
         /\ \E k \in 1..Len(AllLis) : AllLis[k] = ItemMarkup(gen, items[n], FALSE)

----------------------------------------------------------------------------
(* C10 *)

\* the key a renderer sorts the records of a year by
SortKeyOf(g, it) == OrdKey(IF g = "bib" THEN it.sort_key ELSE it.date)

\* the records of its whose year is shown as label, in descending order of
\* their sort key, those of equal sort key in the order they have in its
InYearOrder(g, its, label) ==
    LET mine == {n \in 1..Len(its) : Shown(g, its[n].year) = label}
        Before(a, b) == \/ KeyLess(SortKeyOf(g, its[b]), SortKeyOf(g, its[a]))
                        \/ SortKeyOf(g, its[a]) = SortKeyOf(g, its[b]) /\ a < b
        Rank(a) == Cardinality({b \in mine : Before(b, a)}) + 1
    IN  [r \in 1..Cardinality(mine) |-> its[CHOOSE a \in mine : Rank(a) = r]]

\* C10: the list items of every year group of the fragment of either
\* renderer are those of the records of that year in descending order of
\* their sort key, records of equal sort key in the order they were handed
\* over in.
C10_WithinYearOrder ==
    pc = "returned" =>
        \A k \in 1..Len(LabelAt(gen, fragment)) :
            LET at == LabelAt(gen, fragment)[k]
                recs == InYearOrder(gen, items, LabelText(gen, fragment, at))
            IN  GroupLis(fragment, at)
                  = [r \in 1..Len(recs) |->
                       ItemMarkup(gen, recs[r], gen = "orcid")]

\* render_html has rendered three records of one year: two different ones of
\* equal sort key, and between them in the input one of a later month
C10_Witness ==
    /\ pc = "returned" /\ gen = "bib" /\ Len(items) = 3
    /\ items[1].year = items[2].year /\ items[2].year = items[3].year
    /\ items[1].sort_key = items[3].sort_key /\ items[1] # items[3]
    /\ KeyLess(OrdKey(items[1].sort_key), OrdKey(items[2].sort_key))
    /\ Len(GroupLis(fragment, LabelAt(gen, fragment)[1])) = 3

----------------------------------------------------------------------------
(* C5, C6, C7 *)

\* the positions at which the text p occurs in the document s
Occurrences(s, p) == {i \in 1..(Len(s) - Len(p) + 1) : SubSeq(s, i, i + Len(p) - 1) = p}

\* the position of the first START of document s, 0 if it has none
StartAt(g, s) ==
    LET at == Occurrences(s, START(g))
    IN  IF at = {} THEN 0 ELSE CHOOSE i \in at : \A j \in at : i <= j

\* the position of the first END behind the first START of s, 0 if there is
\* no START or no END behind it
EndAt(g, s) ==
    LET at == {i \in Occurrences(s, END(g)) :
                  StartAt(g, s) # 0 /\ i >= StartAt(g, s) + Len(START(g))}
    IN  IF at = {} THEN 0 ELSE CHOOSE i \in at : \A j \in at : i <= j

\* the document the current run started on
OldDoc == destLog[run]

\* C5: a run that aborts ends with a non-zero exit status and leaves
\* publications.html as it was; a run ends well only if the bibliography
\* file exists and the document has the start marker and, behind it, the end
\* marker; and a run of the ORCID generator writes the fragment file only
\* once the request for the works and the request for every put-code have
\* succeeded.
C5_NoPartialWrite ==
    /\ pc = "aborted" => (exitCode # 0 /\ dest = OldDoc)
    /\ pc = "done" => /\ exitCode = 0
                      /\ EndAt(gen, OldDoc) # 0
                      /\ gen = "bib" => bibExists
    /\ (gen = "bib" /\ ~bibExists) => pc \in {"main", "aborted"}
    /\ fragRun = run =>
          /\ gen = "orcid"
          /\ Len(items) = Cardinality({k \in 1..Len(summaries) : summaries[k] # <<>>})
          /\ \A n \in 1..Len(items) : items[n] = OrcidItem(Catalogue[put_codes[n]])

\* the ORCID generator has fetched two works and written the fragment file,
\* and has then aborted on a document whose only END marker precedes its
\* START marker
C5_Witness ==
    /\ pc = "aborted" /\ gen = "orcid" /\ fragRun = run /\ Len(items) = 2
    /\ StartAt(gen, dest) # 0 /\ Occurrences(dest, END(gen)) # {}

\* C6: when a run ends well, publications.html is the text the old document
\* had before its start marker, the start marker, the fragment of this run
\* on lines of its own, the end marker, and the text the old document had
\* behind its end marker; nothing else, so nothing of the old region.
C6_SpliceFrame ==
    pc = "done" =>
        dest = SubSeq(OldDoc, 1, StartAt(gen, OldDoc) - 1)
               \o START(gen) \o NL \o fragment \o NL \o END(gen)
               \o SubSeq(OldDoc, EndAt(gen, OldDoc) + Len(END(gen)), Len(OldDoc))

\* a run has ended well on a document that has text before the start marker,
\* an old region, and behind the end marker text that holds END once more
C6_Witness ==
    /\ pc = "done" /\ run = 1 /\ Len(items) > 0
    /\ StartAt(gen, OldDoc) > 1
    /\ EndAt(gen, OldDoc) > StartAt(gen, OldDoc) + Len(START(gen))
    /\ Cardinality(Occurrences(OldDoc, END(gen))) = 2
    /\ Cardinality(Occurrences(dest, END(gen))) = 2

\* C7: on a document that holds each marker exactly once, a second run on
\* the same source, behind a first run that ended well, leaves
\* publications.html as the first run left it.
C7_SecondRunChangesNothing ==
    ( /\ run = 2 /\ pc \in {"done", "aborted"} /\ exitLog[1] = 0
      /\ Cardinality(Occurrences(destLog[1], START(gen))) = 1
      /\ Cardinality(Occurrences(destLog[1], END(gen))) = 1 )
    => dest = destLog[2]

====
